---- MODULE Spec2Model ----
(***************************************************************************)
(* Model of the fsearch query parser (src/src/fsearch_query_parser.c):     *)
(* the shunting-yard expression parser, the field dispatcher with its      *)
(* modifiers, functions and macro expansion, and the parse context.        *)
(*                                                                         *)
(* The C call stack is explicit (frames).  One step of the model is one    *)
(* iteration of the main loop of fsearch_query_parser_parse_expression,    *)
(* or the part of parse_field that follows parse_filter_macros.            *)
(***************************************************************************)
EXTENDS Integers, Sequences, FiniteSets, TLC

VARIABLES
    lexer,           \* parse_ctx->lexer: the token source being read
    operator_stack,  \* parse_ctx->operator_stack
    macro_stack,     \* parse_ctx->macro_stack: filters being expanded
    last_token,      \* parse_ctx->last_token
    macro_filters,   \* parse_ctx->macro_filters: the registry (never changes)
    frames,          \* the C call stack, innermost activation last
    result,          \* the list returned by the top-level parse_expression
    pc,              \* "run", "done" (the top-level call returned), "abort"
                     \* (g_assert_not_reached), "overflow" (stack overflow)
    query,           \* the token stream of the top-level parse (never changes)
    top_flags,       \* the flags of the top-level parse (never changes)
    field_return     \* history: the latest call of parse_field past its macro
                     \* lookup, and what it returned (the code keeps no such record)

vars == <<lexer, operator_stack, macro_stack, last_token, macro_filters,
          frames, result, pc, query, top_flags, field_return>>

----------------------------------------------------------------------------
(* Tokens (FsearchQueryToken and the token's string value)                  *)

Tok(k) == [kind |-> k, str |-> ""]
W(s) == [kind |-> "Word", str |-> s]
F(n) == [kind |-> "Field", str |-> n]
E(n) == [kind |-> "EmptyField", str |-> n]

TokAnd == Tok("And")
TokOr == Tok("Or")
TokNot == Tok("Not")
TokOpen == Tok("BracketOpen")
TokClose == Tok("BracketClose")
TokEos == Tok("Eos")

ComparisonTokens == {"Equal", "Smaller", "SmallerEq", "Greater", "GreaterEq"}

(* Query flags: a bitset, modelled as the set of the bits that are set.     *)
NoFlags == {}

(* Nodes (fsearch_query_node.h constructors)                                *)
NullStr == "(null)"

fsearch_query_node_new(str, flags) == [type |-> "Word", str |-> str, flags |-> flags]
fsearch_query_node_new_operator(op) == [type |-> op]
fsearch_query_node_new_match_nothing == [type |-> "MatchNothing"]
fsearch_query_node_new_match_everything(flags) == [type |-> "MatchEverything", flags |-> flags]
NumericNode(type, flags, start, end, comp) ==
    [type |-> type, flags |-> flags, start |-> start, end |-> end, comp |-> comp]
StringNode(type, str, flags) == [type |-> type, str |-> str, flags |-> flags]

OperatorTypes == {"And", "Or", "Not"}

----------------------------------------------------------------------------
(* The lexer: a token stream with one token of lookahead.  Past the end of  *)
(* the input it keeps returning Eos.                                        *)

fsearch_query_lexer_new(toks) == [toks |-> toks, pos |-> 1]

fsearch_query_lexer_peek_next_token(lx) ==
    IF lx.pos <= Len(lx.toks) THEN lx.toks[lx.pos] ELSE TokEos

\* The lexer after fsearch_query_lexer_get_next_token (the token returned is
\* the one peek shows).
LexerAdvance(lx) ==
    IF lx.pos <= Len(lx.toks) THEN [lx EXCEPT !.pos = lx.pos + 1] ELSE lx

----------------------------------------------------------------------------
(* Token categories and the operator stack                                  *)

top_query_token(stack) ==
    IF stack = <<>> THEN "None" ELSE stack[Len(stack)]

\* The stack after pop_query_token (the token returned is top_query_token).
PopStack(stack) ==
    IF stack = <<>> THEN stack ELSE SubSeq(stack, 1, Len(stack) - 1)

push_query_token(stack, token) == Append(stack, token)

\* And and Or given the same precedence.
get_operator_precedence_flat(operator) ==
    CASE operator = "Not" -> 3
      [] operator = "And" -> 2
      [] operator = "Or" -> 2
      [] OTHER -> 0

get_operator_precedence(operator) ==
    CASE operator = "Not" -> 3
      [] operator = "And" -> 2
      [] operator = "Or" -> 1
      [] OTHER -> 0

\* The node of an operator token as a list: empty where the C code gets NULL
\* (append_to_list_if_nonnull then appends nothing).
get_operator_node_for_query_token(token) ==
    IF token \in OperatorTypes THEN <<fsearch_query_node_new_operator(token)>> ELSE <<>>

is_operand_token(token) == token \in {"Word", "Field", "EmptyField"}

is_binary_operator_token(token) == token \in {"And", "Or"}

is_operator_token(token) == is_binary_operator_token(token) \/ token = "Not"

is_operator_token_followed_by_operand(lx, op_token) ==
    LET next_token == fsearch_query_lexer_peek_next_token(lx).kind
    IN IF is_binary_operator_token(op_token) /\ next_token = "Not"
       THEN TRUE
       ELSE is_operand_token(next_token) \/ next_token = "BracketOpen"

\* The loop of parse_operator with < for <=: an operator of the precedence of
\* the incoming token stays on the stack.
RECURSIVE PopOperatorsStrict(_, _, _)
PopOperatorsStrict(stack, token, res) ==
    IF stack # <<>> /\ get_operator_precedence(token) < get_operator_precedence(top_query_token(stack))
    THEN PopOperatorsStrict(PopStack(stack), token,
                            res \o get_operator_node_for_query_token(top_query_token(stack)))
    ELSE [stack |-> stack, res |-> res]

\* The loop of parse_operator: pop every operator whose precedence is not
\* lower than that of the incoming token.
RECURSIVE PopOperators(_, _, _)
PopOperators(stack, token, res) ==
    IF stack # <<>> /\ get_operator_precedence(token) <= get_operator_precedence(top_query_token(stack))
    THEN PopOperators(PopStack(stack), token,
                      res \o get_operator_node_for_query_token(top_query_token(stack)))
    ELSE [stack |-> stack, res |-> res]

\* c is the parse context; the value is the context after the call and the
\* list returned.
parse_operator(c, token) ==
    LET p == PopOperators(c.operator_stack, token, <<>>)
    IN [c |-> [c EXCEPT !.last_token = token,
                        !.operator_stack = push_query_token(p.stack, token)],
        res |-> p.res]

\* The implicit And pushed on the operator stack directly, without the pops
\* of parse_operator.
get_implicit_and_unordered(c, last, next_token) ==
    IF (is_operand_token(last) \/ last = "BracketClose")
       /\ (is_operand_token(next_token) \/ next_token = "BracketOpen" \/ next_token = "Not")
    THEN [c |-> [c EXCEPT !.last_token = "And",
                          !.operator_stack = push_query_token(c.operator_stack, "And")],
          res |-> <<>>]
    ELSE [c |-> c, res |-> <<>>]

get_implicit_and_if_necessary(c, last, next_token) ==
    IF (is_operand_token(last) \/ last = "BracketClose")
       /\ (is_operand_token(next_token) \/ next_token = "BracketOpen" \/ next_token = "Not")
    THEN parse_operator(c, "And")
    ELSE [c |-> c, res |-> <<>>]

\* The run of Not tokens consumed without keeping its parity.
RECURSIVE consume_not_tokens_no_parity(_, _)
consume_not_tokens_no_parity(lx, uneven) ==
    IF fsearch_query_lexer_peek_next_token(lx).kind = "Not"
    THEN consume_not_tokens_no_parity(LexerAdvance(lx), uneven)
    ELSE [lexer |-> lx, uneven |-> uneven]

\* The lexer after the run of Not tokens is consumed, and whether the run,
\* with the Not already read, has an odd length.
RECURSIVE consume_consecutive_not_token(_, _)
consume_consecutive_not_token(lx, uneven) ==
    IF fsearch_query_lexer_peek_next_token(lx).kind = "Not"
    THEN consume_consecutive_not_token(LexerAdvance(lx), ~uneven)
    ELSE [lexer |-> lx, uneven |-> uneven]

RECURSIVE discard_consecutive_binary_operator_tokens(_)
discard_consecutive_binary_operator_tokens(lx) ==
    IF is_binary_operator_token(fsearch_query_lexer_peek_next_token(lx).kind)
    THEN discard_consecutive_binary_operator_tokens(LexerAdvance(lx))
    ELSE lx

\* The loop of parse_close_bracket; found is FALSE when the stack runs empty
\* before a BracketOpen is met (the g_assert_not_reached branch).
RECURSIVE PopToOpenBracket(_, _)
PopToOpenBracket(stack, res) ==
    LET t == top_query_token(stack)
    IN IF t = "BracketOpen" THEN [stack |-> PopStack(stack), res |-> res, found |-> TRUE]
       ELSE IF t = "None" THEN [stack |-> stack, res |-> res, found |-> FALSE]
       ELSE PopToOpenBracket(PopStack(stack), res \o get_operator_node_for_query_token(t))

parse_close_bracket(c) ==
    LET p == PopToOpenBracket(c.operator_stack, <<>>)
    IN [c |-> [c EXCEPT !.operator_stack = p.stack,
                        !.last_token = IF p.found THEN "BracketClose" ELSE c.last_token,
                        !.pc = IF p.found THEN c.pc ELSE "abort"],
        res |-> p.res]

parse_open_bracket(c) ==
    LET a == get_implicit_and_if_necessary(c, c.last_token, "BracketOpen")
    IN [c |-> [a.c EXCEPT !.last_token = "BracketOpen",
                          !.operator_stack = push_query_token(a.c.operator_stack, "BracketOpen")],
        res |-> a.res]

parse_word(str, flags) == <<fsearch_query_node_new(str, flags)>>

----------------------------------------------------------------------------
(* Word texts.  The value parsers read a word character by character, so    *)
(* every word of the model has its spelling here.                           *)

Spell(str) ==
    CASE str = "5" -> <<"5">>
      [] str = "7" -> <<"7">>
      [] str = "0" -> <<"0">>
      [] str = "-5" -> <<"-", "5">>
      [] str = "5x" -> <<"5", "x">>
      [] str = "5..5" -> <<"5", ".", ".", "5">>
      [] str = "0..0" -> <<"0", ".", ".", "0">>
      [] str = "-5..-5" -> <<"-", "5", ".", ".", "-", "5">>
      [] str = "5..7" -> <<"5", ".", ".", "7">>
      [] str = "5.." -> <<"5", ".", ".">>
      [] str = "..5" -> <<".", ".", "5">>
      [] str = "..0" -> <<".", ".", "0">>
      [] str = ".." -> <<".", ".">>
      [] str = "x..5" -> <<"x", ".", ".", "5">>
      [] str = "5..x" -> <<"5", ".", ".", "x">>
      [] str = "2147483647" -> <<"2", "1", "4", "7", "4", "8", "3", "6", "4", "7">>
      [] str = "2147483647.." ->
            <<"2", "1", "4", "7", "4", "8", "3", "6", "4", "7", ".", ".">>
      [] str = "jan" -> <<"j", "a", "n">>
      [] str = "jan.." -> <<"j", "a", "n", ".", ".">>
      [] str = "..jan" -> <<".", ".", "j", "a", "n">>
      [] str = "jan..jan" -> <<"j", "a", "n", ".", ".", "j", "a", "n">>
      [] str = "a" -> <<"a">>
      [] str = "b" -> <<"b">>
      [] str = "c" -> <<"c">>
      [] OTHER -> <<"?">>

DigitValue(ch) ==
    CASE ch = "0" -> 0 [] ch = "1" -> 1 [] ch = "2" -> 2 [] ch = "3" -> 3
      [] ch = "4" -> 4 [] ch = "5" -> 5 [] ch = "6" -> 6 [] ch = "7" -> 7
      [] ch = "8" -> 8 [] ch = "9" -> 9 [] OTHER -> -1

IsDigit(ch) == DigitValue(ch) >= 0

INT32_MAX == 2147483647

\* strtoll(str, &num_suffix, 10) from position i on, after the sign: the
\* value of the digits read and the position of the first character not
\* read.  The numbers of the model go up to 2^31 - 1, far from the int64_t
\* range where strtoll clamps.
RECURSIVE ReadDigits(_, _, _)
ReadDigits(chars, i, acc) ==
    IF i <= Len(chars) /\ IsDigit(chars[i])
    THEN ReadDigits(chars, i + 1, acc * 10 + DigitValue(chars[i]))
    ELSE [value |-> acc, suffix |-> i]

\* A value parser returns [ok, a, b]: whether str parses, and the two numbers.
ParseFailed == [ok |-> FALSE, a |-> 0, b |-> 0]

parse_integer(chars) ==
    LET signed == chars # <<>> /\ chars[1] \in {"-", "+"}
        first == IF signed THEN 2 ELSE 1
        d == ReadDigits(chars, first, 0)
        num == IF signed /\ chars[1] = "-" THEN 0 - d.value ELSE d.value
    IN IF d.suffix = first THEN ParseFailed          \* no digits: num_suffix == str
       ELSE IF d.suffix <= Len(chars) THEN ParseFailed  \* trailing characters
       ELSE [ok |-> TRUE, a |-> num, b |-> num]

\* fsearch_size_parse (fsearch_size_utils): a number; unit suffixes are left out.
fsearch_size_parse(chars) == parse_integer(chars)

\* fsearch_date_time_parse_interval (fsearch_time_utils): a date word gives
\* the first and the last second of its interval; "jan" stands for a month.
fsearch_date_time_parse_interval(chars) ==
    IF chars = <<"j", "a", "n">> THEN [ok |-> TRUE, a |-> 100, b |-> 200] ELSE ParseFailed

ParseValue(parse_value_func, chars) ==
    CASE parse_value_func = "parse_integer" -> parse_integer(chars)
      [] parse_value_func = "fsearch_size_parse" -> fsearch_size_parse(chars)
      [] parse_value_func = "fsearch_date_time_parse_interval" ->
            fsearch_date_time_parse_interval(chars)

\* The position of the first ".." in chars at or after i, 0 when there is none.
RECURSIVE FindSeparator(_, _)
FindSeparator(chars, i) ==
    IF i + 1 > Len(chars) THEN 0
    ELSE IF chars[i] = "." /\ chars[i + 1] = "." THEN i
    ELSE FindSeparator(chars, i + 1)

\* g_strsplit(string, "..", 2): at most two pieces; no piece for the empty string.
g_strsplit(chars) ==
    LET at == FindSeparator(chars, 1)
    IN IF chars = <<>> THEN <<>>
       ELSE IF at = 0 THEN <<chars>>
       ELSE <<SubSeq(chars, 1, at - 1), SubSeq(chars, at + 2, Len(chars))>>

\* The range parser with the right endpoint parsed into start and end
\* (&start passed at line 178 where the code passes NULL).
parse_numeric_field_right_sets_start(parse_value_func, node_type, str, flags) ==
    LET elements == g_strsplit(Spell(str))
        left == ParseValue(parse_value_func, elements[1])
        right == ParseValue(parse_value_func, elements[2])
        left_empty == elements[1] = <<>>
        has_right == Len(elements) = 2
        right_empty == has_right /\ elements[2] = <<>>
        start == IF has_right /\ ~right_empty THEN right.a
                 ELSE IF left_empty THEN 0 ELSE left.a
        end1 == IF left_empty THEN 0 ELSE left.b
        end == IF ~has_right THEN end1 ELSE IF right_empty THEN INT32_MAX ELSE right.b
        comp_type == IF start = end THEN "Equal"
                     ELSE IF right_empty THEN "GreaterEq"
                     ELSE "Range"
    IN IF elements = <<>> THEN fsearch_query_node_new_match_nothing
       ELSE IF ~left_empty /\ ~left.ok THEN fsearch_query_node_new_match_nothing
       ELSE IF has_right /\ ~right_empty /\ ~right.ok THEN fsearch_query_node_new_match_nothing
       ELSE NumericNode(node_type, flags, start, end, comp_type)

\* The range parser with the test start == end made before the right
\* endpoint is read instead of after it.
parse_numeric_field_early_equal(parse_value_func, node_type, str, flags) ==
    LET elements == g_strsplit(Spell(str))
        left == ParseValue(parse_value_func, elements[1])
        right == ParseValue(parse_value_func, elements[2])
        left_empty == elements[1] = <<>>
        start == IF left_empty THEN 0 ELSE left.a
        end1 == IF left_empty THEN 0 ELSE left.b
        has_right == Len(elements) = 2
        right_empty == has_right /\ elements[2] = <<>>
        end == IF ~has_right THEN end1 ELSE IF right_empty THEN INT32_MAX ELSE right.b
        comp_type == IF has_right THEN (IF right_empty THEN "GreaterEq" ELSE "Range")
                     ELSE IF start = end1 THEN "Equal"
                     ELSE "Range"
    IN IF elements = <<>> THEN fsearch_query_node_new_match_nothing
       ELSE IF ~left_empty /\ ~left.ok THEN fsearch_query_node_new_match_nothing
       ELSE IF has_right /\ ~right_empty /\ ~right.ok THEN fsearch_query_node_new_match_nothing
       ELSE NumericNode(node_type, flags, start, end, comp_type)

parse_numeric_field_with_optional_range(parse_value_func, node_type, str, flags) ==
    LET elements == g_strsplit(Spell(str))
        left == ParseValue(parse_value_func, elements[1])
        right == ParseValue(parse_value_func, elements[2])
        left_empty == elements[1] = <<>>
        start == IF left_empty THEN 0 ELSE left.a
        end1 == IF left_empty THEN 0 ELSE left.b
        has_right == Len(elements) = 2
        right_empty == has_right /\ elements[2] = <<>>
        end == IF ~has_right THEN end1 ELSE IF right_empty THEN INT32_MAX ELSE right.b
        comp_type == IF start = end THEN "Equal"
                     ELSE IF right_empty THEN "GreaterEq"
                     ELSE "Range"
    IN IF elements = <<>> THEN fsearch_query_node_new_match_nothing
       ELSE IF ~left_empty /\ ~left.ok THEN fsearch_query_node_new_match_nothing
       ELSE IF has_right /\ ~right_empty /\ ~right.ok THEN fsearch_query_node_new_match_nothing
       ELSE NumericNode(node_type, flags, start, end, comp_type)

----------------------------------------------------------------------------
(* Functions: each takes the context c, reads its argument tokens from      *)
(* c.lexer and gives the context after the call and the list returned.      *)

ReadToken(c) == [c EXCEPT !.lexer = LexerAdvance(c.lexer)]

\* parse_numeric_function that returns NULL, not a MatchNothing node, when
\* the word after the comparison is missing or does not parse.
parse_numeric_function_null(c, is_empty_field, flags, node_type, parse_value_func) ==
    LET token == fsearch_query_lexer_peek_next_token(c.lexer)
        c1 == ReadToken(c)
        next_token == fsearch_query_lexer_peek_next_token(c1.lexer)
        c2 == ReadToken(c1)
        val == ParseValue(parse_value_func, Spell(next_token.str))
    IN IF is_empty_field
       THEN [c |-> c, res |-> <<fsearch_query_node_new_match_everything(flags)>>]
       ELSE IF token.kind \in ComparisonTokens
       THEN [c |-> c2,
             res |-> IF next_token.kind = "Word" /\ val.ok
                     THEN <<NumericNode(node_type, flags, val.a, val.b, token.kind)>>
                     ELSE <<>>]
       ELSE IF token.kind = "Word"
       THEN [c |-> c1,
             res |-> <<parse_numeric_field_with_optional_range(
                          parse_value_func, node_type, token.str, flags)>>]
       ELSE [c |-> c1, res |-> <<fsearch_query_node_new_match_nothing>>]

parse_numeric_function(c, is_empty_field, flags, node_type, parse_value_func) ==
    LET token == fsearch_query_lexer_peek_next_token(c.lexer)
        c1 == ReadToken(c)
        next_token == fsearch_query_lexer_peek_next_token(c1.lexer)
        c2 == ReadToken(c1)
        val == ParseValue(parse_value_func, Spell(next_token.str))
    IN IF is_empty_field
       THEN [c |-> c, res |-> <<fsearch_query_node_new_match_everything(flags)>>]
       ELSE IF token.kind \in ComparisonTokens
       THEN [c |-> c2,
             res |-> IF next_token.kind = "Word" /\ val.ok
                     THEN <<NumericNode(node_type, flags, val.a, val.b, token.kind)>>
                     ELSE <<fsearch_query_node_new_match_nothing>>]
       ELSE IF token.kind = "Word"
       THEN [c |-> c1,
             res |-> <<parse_numeric_field_with_optional_range(
                          parse_value_func, node_type, token.str, flags)>>]
       ELSE [c |-> c1, res |-> <<fsearch_query_node_new_match_nothing>>]

\* parse_function_empty that reads the token after the field as its argument.
parse_function_empty_reads_argument(c, is_empty_field, flags) ==
    [c |-> IF is_empty_field THEN c ELSE ReadToken(c),
     res |-> <<NumericNode("ChildCount", flags, 0, 0, "Equal")>>]

parse_function_empty(c, is_empty_field, flags) ==
    [c |-> c, res |-> <<NumericNode("ChildCount", flags, 0, 0, "Equal")>>]

\* expect_word and the node of a string function (ext, contenttype, parent).
ParseStringArgument(c, node_type, flags) ==
    LET token == fsearch_query_lexer_peek_next_token(c.lexer)
    IN [c |-> ReadToken(c),
        res |-> IF token.kind = "Word"
                THEN <<StringNode(node_type, token.str, flags)>>
                ELSE <<fsearch_query_node_new_match_nothing>>]

parse_function_extension(c, is_empty_field, flags) ==
    IF is_empty_field
    THEN [c |-> c, res |-> <<StringNode("Extension", NullStr, flags)>>]
    ELSE ParseStringArgument(c, "Extension", flags)

parse_function_contenttype(c, is_empty_field, flags) ==
    IF is_empty_field
    THEN [c |-> c, res |-> <<fsearch_query_node_new_match_everything(flags)>>]
    ELSE ParseStringArgument(c, "ContentType", flags)

parse_function_parent(c, is_empty_field, flags) ==
    LET parent_flags == flags \cup {"ExactMatch"}
    IN IF is_empty_field
       THEN [c |-> c, res |-> <<StringNode("Parent", "", parent_flags)>>]
       ELSE ParseStringArgument(c, "Parent", parent_flags)

supported_functions ==
    {"childcount", "childfilecount", "childfoldercount", "contenttype", "depth", "dm",
     "datemodified", "empty", "ext", "parent", "parents", "size"}

\* function->parser(parse_ctx, is_empty_field, flags) for a name of supported_functions
CallFunction(c, name, is_empty_field, flags) ==
    CASE name = "childcount" ->
            parse_numeric_function(c, is_empty_field, flags, "ChildCount", "parse_integer")
      [] name = "childfilecount" ->
            parse_numeric_function(c, is_empty_field, flags, "ChildFileCount", "parse_integer")
      [] name = "childfoldercount" ->
            parse_numeric_function(c, is_empty_field, flags, "ChildFolderCount", "parse_integer")
      [] name = "contenttype" -> parse_function_contenttype(c, is_empty_field, flags)
      [] name \in {"depth", "parents"} ->
            parse_numeric_function(c, is_empty_field, flags, "Depth", "parse_integer")
      [] name \in {"dm", "datemodified"} ->
            parse_numeric_function(c, is_empty_field, flags, "DateModified",
                                   "fsearch_date_time_parse_interval")
      [] name = "empty" -> parse_function_empty(c, is_empty_field, flags)
      [] name = "ext" -> parse_function_extension(c, is_empty_field, flags)
      [] name = "parent" -> parse_function_parent(c, is_empty_field, flags)
      [] name = "size" ->
            parse_numeric_function(c, is_empty_field, flags, "Size", "fsearch_size_parse")

\* supported_modifiers: name -> the flag and whether it is added (else removed)
supported_modifiers ==
    [case |-> [flag |-> "MatchCase", add |-> TRUE],
     nocase |-> [flag |-> "MatchCase", add |-> FALSE],
     exact |-> [flag |-> "ExactMatch", add |-> TRUE],
     file |-> [flag |-> "FilesOnly", add |-> TRUE],
     nofileonly |-> [flag |-> "FilesOnly", add |-> FALSE],
     files |-> [flag |-> "FilesOnly", add |-> TRUE],
     nofilesonly |-> [flag |-> "FilesOnly", add |-> FALSE],
     folder |-> [flag |-> "FoldersOnly", add |-> TRUE],
     nofolderonly |-> [flag |-> "FoldersOnly", add |-> FALSE],
     folders |-> [flag |-> "FoldersOnly", add |-> TRUE],
     nofoldersonly |-> [flag |-> "FoldersOnly", add |-> FALSE],
     path |-> [flag |-> "SearchInPath", add |-> TRUE],
     nopath |-> [flag |-> "SearchInPath", add |-> FALSE],
     regex |-> [flag |-> "Regex", add |-> TRUE],
     noregex |-> [flag |-> "Regex", add |-> FALSE]]

\* The flags of parse_field after the modifier's flag operation.
ApplyModifier(name, flags) ==
    IF supported_modifiers[name].add
    THEN flags \cup {supported_modifiers[name].flag}
    ELSE flags \ {supported_modifiers[name].flag}

----------------------------------------------------------------------------
(* The call stack.  Three kinds of activation are kept:                     *)
(*   expr    fsearch_query_parser_parse_expression, with its locals;        *)
(*   field   parse_field, from its call of parse_filter_macros on;          *)
(*   bracket parse_modifier waiting for the expression of its bracket.      *)

ExprFrame(in_open_bracket, flags) ==
    [kind |-> "expr",
     in_open_bracket |-> in_open_bracket,
     flags |-> flags,
     res |-> <<>>,
     num_open_brackets |-> IF in_open_bracket THEN 1 ELSE 0,
     num_close_brackets |-> 0,
     token |-> TokEos,        \* the token of the current iteration
     last_token |-> "None"]   \* the local last_token of the current iteration

\* state is "expanding" while the nested parse of the macro runs and
\* "returned" once parse_filter_macros has returned res.  entry (the lexer,
\* operator stack and macro stack at the call of parse_filter_macros) and
\* outcome (how parse_filter_macros returned) are history kept for the
\* properties; the code has no such fields.
FieldFrame(field_name, is_empty_field, flags, c) ==
    [kind |-> "field",
     field_name |-> field_name,
     is_empty_field |-> is_empty_field,
     flags |-> flags,
     state |-> "returned",
     res |-> <<>>,
     main_lexer |-> c.lexer,
     main_operator_stack |-> c.operator_stack,
     entry |-> [lexer |-> c.lexer, operator_stack |-> c.operator_stack,
                macro_stack |-> c.macro_stack],
     outcome |-> "rejected"]

\* call (the record of the parse_field call that the modifier belongs to) is
\* history kept for the properties.
BracketFrame(res, c) ==
    [kind |-> "bracket", res |-> res,
     call |-> [c.field_return EXCEPT !.bracket_lexer = c.lexer]]

\* The record of a parse_field call: the field, how the field is handled
\* ("macro": the expansion is returned, "modifier", "function", "unknown"),
\* the lexer, operator stack and last_token when the handling starts, and,
\* once the call has returned, the list it returned and the lexer and the
\* operator stack at the return.  bracket is how the parse_expression of a
\* modifier's bracket returned ("none" when there was no bracket), and
\* bracket_lexer the lexer when that parse_expression was called.  outcome is
\* how parse_filter_macros returned and expansion the list it returned.
FieldCall(f, how, c) ==
    [field_name |-> f.field_name, is_empty_field |-> f.is_empty_field, flags |-> f.flags,
     how |-> how, lexer |-> c.lexer, operator_stack |-> c.operator_stack,
     last_token |-> c.last_token, macro_stack |-> c.macro_stack,
     returned |-> FALSE, res |-> <<>>, after |-> c.lexer,
     stack_after |-> c.operator_stack, bracket |-> "none", bracket_lexer |-> c.lexer,
     outcome |-> f.outcome, expansion |-> f.res]

NoFieldCall ==
    [field_name |-> "", is_empty_field |-> FALSE, flags |-> NoFlags,
     how |-> "none", lexer |-> fsearch_query_lexer_new(<<>>), operator_stack |-> <<>>,
     last_token |-> "None", macro_stack |-> <<>>,
     returned |-> FALSE, res |-> <<>>, after |-> fsearch_query_lexer_new(<<>>),
     stack_after |-> <<>>, bracket |-> "none",
     bracket_lexer |-> fsearch_query_lexer_new(<<>>),
     outcome |-> "rejected", expansion |-> <<>>]

Top(c) == c.frames[Len(c.frames)]

PopFrame(c) == [c EXCEPT !.frames = SubSeq(c.frames, 1, Len(c.frames) - 1)]

MaxCallDepth == 24   \* activations the C stack holds

\* A call.  The C stack is finite: a call that nests deeper than MaxCallDepth
\* activations overflows it and the process dies.
PushFrame(c, f) ==
    IF Len(c.frames) >= MaxCallDepth THEN [c EXCEPT !.pc = "overflow"]
    ELSE [c EXCEPT !.frames = Append(c.frames, f)]

\* Lines 742-748 of parse_expression: the end of an iteration of the main
\* loop, with the list to_append of the iteration.  The top frame is the
\* expr frame of the loop.
FinishIteration(c, to_append, skip_implicit_and_check) ==
    LET f == Top(c)
        a == IF skip_implicit_and_check
             THEN [c |-> c, res |-> <<>>]
             ELSE get_implicit_and_if_necessary(c, f.last_token, f.token.kind)
        rest == [f EXCEPT !.token = TokEos, !.last_token = "None"]
    IN IF to_append # <<>>
       THEN [a.c EXCEPT !.last_token = f.token.kind,
                        !.frames[Len(c.frames)] =
                            [rest EXCEPT !.res = (f.res \o a.res) \o to_append]]
       ELSE [c EXCEPT !.frames[Len(c.frames)] = rest]

\* parse_field returns the list res to the main loop that called it (lines
\* 731-736), which goes on to the end of its iteration.  The top frame of c
\* is the expr frame of that loop.
ReturnField(c, res, bracket) ==
    FinishIteration(
        [c EXCEPT !.field_return =
            [@ EXCEPT !.returned = TRUE, !.res = res, !.after = c.lexer,
                      !.stack_after = c.operator_stack, !.bracket = bracket]],
        res, FALSE)

\* The first filter of macro_filters whose macro name is name, 0 if none.
RECURSIVE FindFilter(_, _, _)
FindFilter(filters, name, i) ==
    IF i > Len(filters) THEN 0
    ELSE IF filters[i].macro = name THEN i
    ELSE FindFilter(filters, name, i + 1)

\* The cycle check gone wrong: only the filter being expanded right now is
\* looked at, so a filter that names itself is caught and a longer cycle is not.
OnMacroStackTopOnly(c, i) ==
    c.macro_stack # <<>> /\ c.macro_stack[Len(c.macro_stack)] = i

\* g_queue_find(parse_ctx->macro_stack, filter)
OnMacroStack(c, i) == \E k \in 1..Len(c.macro_stack) : c.macro_stack[k] = i

\* parse_filter_macros without the g_queue_find check.
ExpandsFilterUnchecked(c, i) == i # 0 /\ c.macro_filters[i].query # <<>>

\* Whether parse_filter_macros expands filter i (lines 397-405).
ExpandsFilter(c, i) ==
    i # 0 /\ ~OnMacroStack(c, i) /\ c.macro_filters[i].query # <<>>

MacroFlags(filter_flags, flags) ==
    flags \cup (filter_flags \cap {"SearchInPath", "MatchCase", "Regex"})

\* parse_field up to the point where parse_filter_macros has either returned
\* without expanding or has called the nested parse_expression (lines 391-428).
\* The top frame of c is the frame of the caller.
parse_field(c, field_name, is_empty_field, flags) ==
    LET i == FindFilter(c.macro_filters, field_name, 1)
        filter == c.macro_filters[i]
        frame == FieldFrame(field_name, is_empty_field, flags, c)
    IN IF ExpandsFilter(c, i)
       THEN PushFrame(
                PushFrame([c EXCEPT !.macro_stack = Append(c.macro_stack, i),
                                    !.lexer = fsearch_query_lexer_new(filter.query),
                                    !.operator_stack = <<>>],
                          [frame EXCEPT !.state = "expanding"]),
                ExprFrame(FALSE, MacroFlags(filter.flags, flags)))
       ELSE PushFrame(c, frame)

\* parse_filter_macros that frees the nested operator stack and forgets to
\* put main_operator_stack back.
MacroReturnStackLost(c, res, how) ==
    LET f == Top(c)
    IN [c EXCEPT !.operator_stack = <<>>,
                 !.lexer = f.main_lexer,
                 !.macro_stack = SubSeq(c.macro_stack, 1, Len(c.macro_stack) - 1),
                 !.frames[Len(c.frames)] =
                     [f EXCEPT !.state = "returned", !.res = res, !.outcome = how]]

\* parse_filter_macros after the nested parse_expression returned res
\* (lines 429-441).  The top frame of c is the field frame.
MacroReturn(c, res, how) ==
    LET f == Top(c)
    IN [c EXCEPT !.operator_stack = f.main_operator_stack,
                 !.lexer = f.main_lexer,
                 !.macro_stack = SubSeq(c.macro_stack, 1, Len(c.macro_stack) - 1),
                 !.frames[Len(c.frames)] =
                     [f EXCEPT !.state = "returned", !.res = res, !.outcome = how]]

\* return of parse_expression with the list res: to the caller of the
\* top-level call, to parse_filter_macros, or to parse_modifier (line 377),
\* which returns to the main loop that called parse_field.
ReturnExpression(c, res, how) ==
    LET c1 == PopFrame(c)
    IN IF c1.frames = <<>> THEN [c1 EXCEPT !.pc = "done", !.result = res]
       ELSE IF Top(c1).kind = "field" THEN MacroReturn(c1, res, how)
       ELSE ReturnField([PopFrame(c1) EXCEPT !.field_return = Top(c1).call],
                        Top(c1).res \o res, how)

\* parse_modifier with flags passed by reference: the modifier's flags are
\* written to the flags of the parse_expression that met the modifier.
parse_modifier_by_reference(c, is_empty_field, flags) ==
    LET cr == [c EXCEPT !.frames[Len(c.frames)].flags = flags]
        token == fsearch_query_lexer_peek_next_token(cr.lexer)
        c1 == ReadToken(cr)
        o == parse_open_bracket(c1)
    IN IF is_empty_field
       THEN ReturnField(cr, <<fsearch_query_node_new_match_everything(flags)>>, "none")
       ELSE IF token.kind = "Word"
       THEN ReturnField(c1, parse_word(token.str, flags), "none")
       ELSE IF token.kind = "BracketOpen"
       THEN PushFrame(PushFrame(o.c, BracketFrame(o.res, o.c)), ExprFrame(TRUE, flags))
       ELSE IF token.kind = "Field"
       THEN parse_field(c1, token.str, FALSE, flags)
       ELSE IF token.kind = "EmptyField"
       THEN parse_field(c1, token.str, TRUE, flags)
       ELSE ReturnField(c1, <<fsearch_query_node_new_match_nothing>>, "none")

\* parse_modifier (lines 365-386), up to the return to the main loop or the
\* call of parse_expression or parse_field.  The top frame of c is the frame
\* of the parse_expression whose loop called parse_field.
parse_modifier(c, is_empty_field, flags) ==
    LET token == fsearch_query_lexer_peek_next_token(c.lexer)
        c1 == ReadToken(c)
        o == parse_open_bracket(c1)
    IN IF is_empty_field
       THEN ReturnField(c, <<fsearch_query_node_new_match_everything(flags)>>, "none")
       ELSE IF token.kind = "Word"
       THEN ReturnField(c1, parse_word(token.str, flags), "none")
       ELSE IF token.kind = "BracketOpen"
       THEN PushFrame(PushFrame(o.c, BracketFrame(o.res, o.c)), ExprFrame(TRUE, flags))
       ELSE IF token.kind = "Field"
       THEN parse_field(c1, token.str, FALSE, flags)
       ELSE IF token.kind = "EmptyField"
       THEN parse_field(c1, token.str, TRUE, flags)
       ELSE ReturnField(c1, <<fsearch_query_node_new_match_nothing>>, "none")

\* parse_field with the native tables looked up before the result of the
\* macro: a native name is never handled by a filter.
ParseFieldDispatchNativeFirst(c) ==
    LET f == Top(c)
        how == IF f.field_name \in DOMAIN supported_modifiers THEN "modifier"
               ELSE IF f.field_name \in supported_functions THEN "function"
               ELSE IF f.res # <<>> THEN "macro"
               ELSE "unknown"
        c1 == [PopFrame(c) EXCEPT !.field_return = FieldCall(f, how, c)]
        r == CallFunction(c1, f.field_name, f.is_empty_field, f.flags)
    IN IF f.field_name \in DOMAIN supported_modifiers
       THEN parse_modifier(c1, f.is_empty_field, ApplyModifier(f.field_name, f.flags))
       ELSE IF f.field_name \in supported_functions
       THEN ReturnField(r.c, r.res, "none")
       ELSE IF f.res # <<>>
       THEN ReturnField(c1, f.res, "none")
       ELSE ReturnField(c1, <<fsearch_query_node_new_match_nothing>>, "none")

\* parse_field that returns res as it is, without the MatchNothing of line 468.
ParseFieldDispatchNoFallback(c) ==
    LET f == Top(c)
        how == IF f.res # <<>> THEN "macro"
               ELSE IF f.field_name \in DOMAIN supported_modifiers THEN "modifier"
               ELSE IF f.field_name \in supported_functions THEN "function"
               ELSE "unknown"
        c1 == [PopFrame(c) EXCEPT !.field_return = FieldCall(f, how, c)]
        r == CallFunction(c1, f.field_name, f.is_empty_field, f.flags)
    IN IF f.res # <<>>
       THEN ReturnField(c1, f.res, "none")
       ELSE IF f.field_name \in DOMAIN supported_modifiers
       THEN parse_modifier(c1, f.is_empty_field, ApplyModifier(f.field_name, f.flags))
       ELSE IF f.field_name \in supported_functions
       THEN ReturnField(r.c, r.res, "none")
       ELSE ReturnField(c1, <<>>, "none")

\* parse_field after parse_filter_macros returned (lines 448-468).  The top
\* frame of c is the field frame.
ParseFieldDispatch(c) ==
    LET f == Top(c)
        how == IF f.res # <<>> THEN "macro"
               ELSE IF f.field_name \in DOMAIN supported_modifiers THEN "modifier"
               ELSE IF f.field_name \in supported_functions THEN "function"
               ELSE "unknown"
        c1 == [PopFrame(c) EXCEPT !.field_return = FieldCall(f, how, c)]
        r == CallFunction(c1, f.field_name, f.is_empty_field, f.flags)
    IN IF f.res # <<>>
       THEN ReturnField(c1, f.res, "none")
       ELSE IF f.field_name \in DOMAIN supported_modifiers
       THEN parse_modifier(c1, f.is_empty_field, ApplyModifier(f.field_name, f.flags))
       ELSE IF f.field_name \in supported_functions
       THEN ReturnField(r.c, r.res, "none")
       ELSE ReturnField(c1, <<fsearch_query_node_new_match_nothing>>, "none")

\* The flush at "out:" (lines 751-755): every entry of the operator stack is
\* popped, the operators among them are appended.
RECURSIVE FlushOperators(_, _)
FlushOperators(stack, res) ==
    IF stack = <<>> THEN res
    ELSE FlushOperators(PopStack(stack),
                        res \o get_operator_node_for_query_token(top_query_token(stack)))

\* The start of an iteration of the main loop of
\* fsearch_query_parser_parse_expression (lines 666-675): the token is read
\* and last_token copied.  The top frame of c is the expr frame.
ReadLoopToken(c) ==
    [ReadToken(c) EXCEPT
        !.frames[Len(c.frames)] =
            [Top(c) EXCEPT !.token = fsearch_query_lexer_peek_next_token(c.lexer),
                           !.last_token = c.last_token]]

\* The iterations of the main loop, one operator for each case of the switch
\* (lines 676-740), each up to the next iteration (lines 742-748), the
\* return, or the call of a nested parse_expression.

\* case FSEARCH_QUERY_TOKEN_EOS, and the flush at "out:"
ParseEosStep(c) ==
    LET c1 == ReadLoopToken(c)
    IN ReturnExpression([c1 EXCEPT !.operator_stack = <<>>],
                        FlushOperators(c1.operator_stack, Top(c1).res), "eos")

\* case FSEARCH_QUERY_TOKEN_NOT
ParseNotStep(c) ==
    LET c1 == ReadLoopToken(c)
        nots == consume_consecutive_not_token(c1.lexer, TRUE)
        c2 == [c1 EXCEPT !.lexer = nots.lexer]
        a == get_implicit_and_if_necessary(c2, Top(c1).last_token, "Not")
        p == parse_operator(a.c, "Not")
        emit == nots.uneven /\ is_operator_token_followed_by_operand(c2.lexer, "Not")
    IN FinishIteration(IF emit THEN p.c ELSE c2, IF emit THEN a.res \o p.res ELSE <<>>, emit)

\* case FSEARCH_QUERY_TOKEN_AND, FSEARCH_QUERY_TOKEN_OR
ParseBinaryOperatorStep(c) ==
    LET c1 == ReadLoopToken(c)
        token == Top(c1).token.kind
        p == parse_operator(c1, token)
        emit == is_operator_token_followed_by_operand(c1.lexer, token)
    IN FinishIteration(IF emit THEN p.c ELSE c1, IF emit THEN p.res ELSE <<>>, FALSE)

\* The opening bracket without the call of
\* discard_consecutive_binary_operator_tokens.
ParseBracketOpenStepNoDiscard(c) ==
    LET c1 == ReadLoopToken(c)
        o == parse_open_bracket([c1 EXCEPT !.frames[Len(c.frames)].num_open_brackets = @ + 1])
    IN FinishIteration(o.c, o.res, FALSE)

\* case FSEARCH_QUERY_TOKEN_BRACKET_OPEN
ParseBracketOpenStep(c) ==
    LET c1 == ReadLoopToken(c)
        o == parse_open_bracket([c1 EXCEPT !.frames[Len(c.frames)].num_open_brackets = @ + 1])
    IN FinishIteration(
           [o.c EXCEPT !.lexer = discard_consecutive_binary_operator_tokens(o.c.lexer)],
           o.res, FALSE)

\* The closing bracket handled whenever there are at least as many open as
\* closing brackets (>= where the code has >).
ParseBracketCloseStepOffByOne(c) ==
    LET c1 == ReadLoopToken(c)
        f == Top(c1)
        cl == parse_close_bracket([c1 EXCEPT !.frames[Len(c.frames)].num_close_brackets = @ + 1])
        matched == f.num_open_brackets >= f.num_close_brackets
        last == f.in_open_bracket /\ f.num_close_brackets + 1 = f.num_open_brackets
    IN IF matched /\ cl.c.pc = "abort" THEN cl.c
       ELSE IF matched /\ ~last THEN FinishIteration(cl.c, cl.res, FALSE)
       ELSE ReturnExpression(IF matched THEN cl.c ELSE c1,
                             IF matched THEN f.res \o cl.res
                             ELSE <<fsearch_query_node_new_match_nothing>>,
                             IF matched THEN "bracket" ELSE "unbalanced")

\* case FSEARCH_QUERY_TOKEN_BRACKET_CLOSE
ParseBracketCloseStep(c) ==
    LET c1 == ReadLoopToken(c)
        f == Top(c1)
        cl == parse_close_bracket([c1 EXCEPT !.frames[Len(c.frames)].num_close_brackets = @ + 1])
        matched == f.num_open_brackets > f.num_close_brackets
        last == f.in_open_bracket /\ f.num_close_brackets + 1 = f.num_open_brackets
    IN IF matched /\ cl.c.pc = "abort" THEN cl.c
       ELSE IF matched /\ ~last THEN FinishIteration(cl.c, cl.res, FALSE)
       ELSE ReturnExpression(IF matched THEN cl.c ELSE c1,
                             IF matched THEN f.res \o cl.res
                             ELSE <<fsearch_query_node_new_match_nothing>>,
                             IF matched THEN "bracket" ELSE "unbalanced")

\* case FSEARCH_QUERY_TOKEN_WORD
ParseWordStep(c) ==
    LET c1 == ReadLoopToken(c)
    IN FinishIteration(c1, parse_word(Top(c1).token.str, Top(c1).flags), FALSE)

\* case FSEARCH_QUERY_TOKEN_FIELD, FSEARCH_QUERY_TOKEN_FIELD_EMPTY
ParseFieldTokenStep(c) ==
    LET c1 == ReadLoopToken(c)
        f == Top(c1)
    IN parse_field(c1, f.token.str, f.token.kind = "EmptyField", f.flags)

\* default: the token is ignored
ParseOtherTokenStep(c) == FinishIteration(ReadLoopToken(c), <<>>, FALSE)

----------------------------------------------------------------------------
(* The state machine                                                        *)

\* The parse context and the call stack as one record.
Ctx ==
    [lexer |-> lexer, operator_stack |-> operator_stack, macro_stack |-> macro_stack,
     last_token |-> last_token, macro_filters |-> macro_filters, frames |-> frames,
     result |-> result, pc |-> pc, field_return |-> field_return]

\* The context of a top-level parse of toks: a new lexer, empty stacks,
\* last_token None, and the call fsearch_query_parser_parse_expression(ctx, false, flags).
NewContext(toks, flags, filters) ==
    [lexer |-> fsearch_query_lexer_new(toks), operator_stack |-> <<>>, macro_stack |-> <<>>,
     last_token |-> "None", macro_filters |-> filters,
     frames |-> <<ExprFrame(FALSE, flags)>>, result |-> <<>>, pc |-> "run",
     field_return |-> NoFieldCall]

Becomes(c) ==
    \E next \in {c} :
        /\ lexer' = next.lexer
        /\ operator_stack' = next.operator_stack
        /\ macro_stack' = next.macro_stack
        /\ last_token' = next.last_token
        /\ frames' = next.frames
        /\ result' = next.result
        /\ pc' = next.pc
        /\ field_return' = next.field_return
        /\ UNCHANGED <<macro_filters, query, top_flags>>

\* One step from c: an iteration of the main loop, or the rest of parse_field.
Step(c) ==
    LET kind == fsearch_query_lexer_peek_next_token(c.lexer).kind
    IN CASE Top(c).kind = "field" -> ParseFieldDispatch(c)
         [] Top(c).kind = "expr" /\ kind = "Eos" -> ParseEosStep(c)
         [] Top(c).kind = "expr" /\ kind = "Not" -> ParseNotStep(c)
         [] Top(c).kind = "expr" /\ kind \in {"And", "Or"} -> ParseBinaryOperatorStep(c)
         [] Top(c).kind = "expr" /\ kind = "BracketOpen" -> ParseBracketOpenStep(c)
         [] Top(c).kind = "expr" /\ kind = "BracketClose" -> ParseBracketCloseStep(c)
         [] Top(c).kind = "expr" /\ kind = "Word" -> ParseWordStep(c)
         [] Top(c).kind = "expr" /\ kind \in {"Field", "EmptyField"} -> ParseFieldTokenStep(c)
         [] OTHER -> ParseOtherTokenStep(c)

\* The context when the top-level call started from c has returned (or aborted).
RECURSIVE Run(_)
Run(c) == IF c.pc = "run" THEN Run(Step(c)) ELSE c

\* The list a top-level parse of toks returns.
Parse(toks, flags, filters) == Run(NewContext(toks, flags, filters)).result

InLoop == pc = "run" /\ frames[Len(frames)].kind = "expr"
NextToken == fsearch_query_lexer_peek_next_token(lexer).kind

ParseEos == InLoop /\ NextToken = "Eos" /\ Becomes(ParseEosStep(Ctx))
ParseNot == InLoop /\ NextToken = "Not" /\ Becomes(ParseNotStep(Ctx))
ParseBinaryOperator ==
    InLoop /\ NextToken \in {"And", "Or"} /\ Becomes(ParseBinaryOperatorStep(Ctx))
ParseBracketOpen == InLoop /\ NextToken = "BracketOpen" /\ Becomes(ParseBracketOpenStep(Ctx))
ParseBracketClose == InLoop /\ NextToken = "BracketClose" /\ Becomes(ParseBracketCloseStep(Ctx))
ParseWord == InLoop /\ NextToken = "Word" /\ Becomes(ParseWordStep(Ctx))
ParseFieldToken ==
    InLoop /\ NextToken \in {"Field", "EmptyField"} /\ Becomes(ParseFieldTokenStep(Ctx))
ParseOtherToken ==
    InLoop /\ NextToken \in ComparisonTokens \cup {"None"} /\ Becomes(ParseOtherTokenStep(Ctx))
ParseField ==
    pc = "run" /\ frames[Len(frames)].kind = "field" /\ Becomes(ParseFieldDispatch(Ctx))

Next ==
    \/ ParseEos
    \/ ParseNot
    \/ ParseBinaryOperator
    \/ ParseBracketOpen
    \/ ParseBracketClose
    \/ ParseWord
    \/ ParseFieldToken
    \/ ParseOtherToken
    \/ ParseField

----------------------------------------------------------------------------
(* Inputs: the token stream, the flags and the macro registry of a parse.   *)

MaxLen == 3          \* longest token stream of the general inputs

SeqsUpTo(S, n) == UNION {[1..k -> S] : k \in 0..n}

Input(q, fl, fs) == [query |-> q, flags |-> fl, filters |-> fs]

Filter(macro, q, fl) == [macro |-> macro, query |-> q, flags |-> fl]

\* m1 expands to a word.
DefaultFilters == <<Filter("m1", <<W("b")>>, NoFlags)>>

FullTokens ==
    {W("a"), F("case"), F("ext"), F("size"), F("m1"), E("case"),
     TokAnd, TokOr, TokNot, TokOpen, TokClose, Tok("Greater")}

\* Queries that every specification has among its inputs: one for each kind
\* of token and of field (modifier, function, macro).
CoreQueries ==
    {<<TokNot, W("a")>>,
     <<W("a"), TokOr, W("a"), TokAnd, W("a")>>,
     <<TokOpen, W("a"), TokClose>>,
     <<F("case"), W("a")>>,
     <<E("case")>>,
     <<Tok("Greater"), W("a")>>,
     <<F("size"), Tok("Greater"), W("5")>>,
     <<F("ext"), W("a")>>,
     <<F("m1")>>}

CoreInputs == {Input(q, NoFlags, DefaultFilters) : q \in CoreQueries}

GeneralInputs ==
    CoreInputs \cup {Input(q, NoFlags, DefaultFilters) : q \in SeqsUpTo(FullTokens, MaxLen)}

InitWith(inputs) ==
    \E i \in inputs :
        LET c == NewContext(i.query, i.flags, i.filters)
        IN /\ query = i.query
           /\ top_flags = i.flags
           /\ macro_filters = i.filters
           /\ lexer = c.lexer
           /\ operator_stack = c.operator_stack
           /\ macro_stack = c.macro_stack
           /\ last_token = c.last_token
           /\ frames = c.frames
           /\ result = c.result
           /\ pc = c.pc
           /\ field_return = c.field_return

Init == InitWith(GeneralInputs)

Spec == Init /\ [][Next]_vars

----------------------------------------------------------------------------
(* Postfix evaluation: leaves push one value, And/Or pop two and push one,  *)
(* Not pops one and pushes one.  The value is the height of the stack after *)
(* the list, or -1 once an operator finds too few values.                   *)

RECURSIVE EvalPostfix(_, _, _)
EvalPostfix(nodes, i, height) ==
    IF i > Len(nodes) THEN height
    ELSE IF nodes[i].type \in {"And", "Or"}
    THEN IF height < 2 THEN -1 ELSE EvalPostfix(nodes, i + 1, height - 1)
    ELSE IF nodes[i].type = "Not"
    THEN IF height < 1 THEN -1 ELSE EvalPostfix(nodes, i + 1, height)
    ELSE EvalPostfix(nodes, i + 1, height + 1)

ValidPostfix(nodes) == EvalPostfix(nodes, 1, 0) = 1

\* C1: the list a top-level parse returns is a valid postfix expression: its
\* evaluation never underflows and leaves exactly one value.  (Stated for the
\* parses that return some node.)
C1_PostfixValid == pc = "done" /\ result # <<>> => ValidPostfix(result)

\* C2: when the top-level parse_expression has returned, at the end of the
\* input or at an unbalanced closing bracket, the operator stack is empty.
C2_OperatorStackFlushed == pc = "done" => operator_stack = <<>>

\* Whether some prefix of toks has more BracketClose than BracketOpen tokens.
RECURSIVE ExcessClose(_, _, _)
ExcessClose(toks, i, depth) ==
    IF i > Len(toks) THEN FALSE
    ELSE IF toks[i].kind = "BracketOpen" THEN ExcessClose(toks, i + 1, depth + 1)
    ELSE IF toks[i].kind = "BracketClose"
    THEN depth = 0 \/ ExcessClose(toks, i + 1, depth - 1)
    ELSE ExcessClose(toks, i + 1, depth)

\* C3: a token stream with, at some prefix, more closing than opening
\* brackets parses to exactly [MatchNothing], whatever surrounds the bracket.
C3_BracketDrop ==
    pc = "done" /\ ExcessClose(query, 1, 0)
        => result = <<fsearch_query_node_new_match_nothing>>

----------------------------------------------------------------------------
(* Flags                                                                    *)

MaxFlagLen == 5      \* longest token stream of the flag inputs

FlagTokens == {W("a"), F("case"), F("nocase"), TokOpen, TokClose, TokOr}

FlagInputs ==
    CoreInputs \cup {Input(q, fl, DefaultFilters) :
                        q \in SeqsUpTo(FlagTokens, MaxFlagLen),
                        fl \in {NoFlags, {"MatchCase"}}}

InitFlags == InitWith(FlagInputs)

SpecFlags == InitFlags /\ [][Next]_vars

IsModifierToken(t) == t.kind = "Field" /\ t.str \in DOMAIN supported_modifiers

\* The flags the Words of toks[i..] carry when every modifier reaches just
\* the operand or the bracketed sub-expression it prefixes.  scopes holds the
\* flags of the enclosing sub-expressions, innermost last; pending is <<fl>>
\* right after a modifier that gives fl to what follows, <<>> otherwise.
RECURSIVE ScopedFlags(_, _, _, _)
ScopedFlags(toks, i, scopes, pending) ==
    IF i > Len(toks) THEN <<>>
    ELSE LET t == toks[i]
             cur == IF pending # <<>> THEN pending[1] ELSE scopes[Len(scopes)]
         IN CASE t.kind = "Word" ->
                     <<cur>> \o ScopedFlags(toks, i + 1, scopes, <<>>)
              [] IsModifierToken(t) ->
                     ScopedFlags(toks, i + 1, scopes, <<ApplyModifier(t.str, cur)>>)
              [] t.kind = "BracketOpen" ->
                     ScopedFlags(toks, i + 1, Append(scopes, cur), <<>>)
              [] t.kind = "BracketClose" ->
                     ScopedFlags(toks, i + 1, SubSeq(scopes, 1, Len(scopes) - 1), <<>>)
              [] OTHER -> ScopedFlags(toks, i + 1, scopes, <<>>)

\* toks is made of Words, modifiers, brackets and operators, no closing
\* bracket is in excess, and every modifier prefixes a Word, a bracketed
\* sub-expression or a further modifier.
WellScoped(toks) ==
    /\ \A i \in 1..Len(toks) :
          \/ toks[i].kind \in {"Word", "BracketOpen", "BracketClose", "And", "Or", "Not"}
          \/ /\ IsModifierToken(toks[i])
             /\ i < Len(toks)
             /\ \/ toks[i + 1].kind \in {"Word", "BracketOpen"}
                \/ IsModifierToken(toks[i + 1])
    /\ ~ExcessClose(toks, 1, 0)

\* The flags of the Word nodes of a list, in order.
LeafFlags(nodes) ==
    LET IsWord(n) == n.type = "Word"
        leaves == SelectSeq(nodes, IsWord)
    IN [k \in 1..Len(leaves) |-> leaves[k].flags]

\* C5: flags are passed by value.  A modifier changes the flags of the
\* operand or bracketed sub-expression it prefixes and of nothing else: each
\* Word before or after carries the flags of its enclosing expression.
C5_FlagIsolation ==
    pc = "done" /\ WellScoped(query)
        => LeafFlags(result) = ScopedFlags(query, 1, <<top_flags>>, <<>>)

\* a Word follows a bracketed sub-expression whose modifier changed the flags
C5_Witness ==
    /\ pc = "done"
    /\ WellScoped(query)
    /\ Len(query) = 5
    /\ IsModifierToken(query[1]) /\ query[2] = TokOpen /\ query[3].kind = "Word"
    /\ query[4] = TokClose /\ query[5].kind = "Word"
    /\ LeafFlags(result) = <<ApplyModifier(query[1].str, top_flags), top_flags>>
    /\ ApplyModifier(query[1].str, top_flags) # top_flags

----------------------------------------------------------------------------
(* Runs of Not                                                              *)

MaxNotLen == 5       \* longest token stream of the Not inputs

NotTokens == {W("a"), TokNot, TokOr, TokOpen, TokClose, F("case")}

NotInputs ==
    CoreInputs \cup {Input(q, NoFlags, DefaultFilters) : q \in SeqsUpTo(NotTokens, MaxNotLen)}

InitNot == InitWith(NotInputs)

SpecNot == InitNot /\ [][Next]_vars

\* The index of the first token at or after i that is not a Not.
RECURSIVE RunEnd(_, _)
RunEnd(toks, i) ==
    IF i <= Len(toks) /\ toks[i].kind = "Not" THEN RunEnd(toks, i + 1) ELSE i

\* A run of Not tokens starts at i and an operand or a bracketed group follows it.
NotRunBeforeOperand(toks, i) ==
    /\ toks[i].kind = "Not"
    /\ i = 1 \/ toks[i - 1].kind # "Not"
    /\ RunEnd(toks, i) <= Len(toks)
    /\ toks[RunEnd(toks, i)].kind \in {"Word", "Field", "EmptyField", "BracketOpen"}

\* toks with the run of Not tokens that starts at i cut down to its parity.
Collapse(toks, i) ==
    LET e == RunEnd(toks, i)
    IN (SubSeq(toks, 1, i - 1) \o (IF (e - i) % 2 = 1 THEN <<TokNot>> ELSE <<>>))
           \o SubSeq(toks, e, Len(toks))

\* C6, as claimed: wherever a run of Not tokens stands before an operand or
\* a bracketed group, the parse returns what it returns with an even run
\* left out and an odd run replaced by one Not.
C6_NotParityAnywhere ==
    pc = "done" =>
        \A i \in 1..Len(query) :
            NotRunBeforeOperand(query, i)
                => result = Parse(Collapse(query, i), top_flags, macro_filters)

\* C6, amended: the same for every run of Not tokens that does not directly
\* follow a Field token or a comparison token.
C6_NotParity ==
    pc = "done" =>
        \A i \in 1..Len(query) :
            /\ NotRunBeforeOperand(query, i)
            /\ i = 1 \/ query[i - 1].kind \notin {"Field"} \cup ComparisonTokens
            => result = Parse(Collapse(query, i), top_flags, macro_filters)

\* a run of three Not tokens between two Words
C6_Witness ==
    /\ pc = "done"
    /\ Len(query) = 5
    /\ query[1].kind = "Word" /\ query[5].kind = "Word"
    /\ \A i \in 2..4 : query[i] = TokNot
    /\ result = Parse(<<query[1], TokNot, query[5]>>, top_flags, macro_filters)
    /\ \E k \in 1..Len(result) : result[k].type = "Not"

----------------------------------------------------------------------------
(* Implicit And                                                             *)

MaxAndLen == 5       \* longest token stream of the And inputs

AndTokens == {W("a"), W("b"), TokAnd, TokOr, TokNot}

AndInputs ==
    CoreInputs \cup {Input(q, NoFlags, DefaultFilters) : q \in SeqsUpTo(AndTokens, MaxAndLen)}

InitAnd == InitWith(AndInputs)

SpecAnd == InitAnd /\ [][Next]_vars

BracketFreeWords(toks) ==
    \A i \in 1..Len(toks) : toks[i].kind \in {"Word", "And", "Or", "Not"}

\* An And stands at i between two Words.
AndBetweenWords(toks, i) ==
    /\ 1 < i /\ i < Len(toks)
    /\ toks[i - 1].kind = "Word" /\ toks[i].kind = "And" /\ toks[i + 1].kind = "Word"

RemoveAt(toks, i) == SubSeq(toks, 1, i - 1) \o SubSeq(toks, i + 1, Len(toks))

\* C7: in a bracket-free query of Words and operators, leaving out an And
\* that stands between two Words does not change the list returned.
C7_ImplicitAnd ==
    pc = "done" /\ BracketFreeWords(query) =>
        \A i \in 1..Len(query) :
            AndBetweenWords(query, i)
                => result = Parse(RemoveAt(query, i), top_flags, macro_filters)

\* an And between two Words is followed by an Or
C7_Witness ==
    /\ pc = "done"
    /\ BracketFreeWords(query)
    /\ Len(query) = 5
    /\ AndBetweenWords(query, 2)
    /\ query[4] = TokOr /\ query[5].kind = "Word"
    /\ result = Parse(RemoveAt(query, 2), top_flags, macro_filters)
    /\ Len(result) = 5

----------------------------------------------------------------------------
(* Operator precedence                                                      *)

\* Not binds tighter than And, And tighter than Or.
ReferencePrecedence(op) == CASE op = "Not" -> 3 [] op = "And" -> 2 [] op = "Or" -> 1

\* The reference shunting-yard algorithm on toks[i..]: a Word goes to the
\* output; an operator first pops to the output every operator on the stack
\* whose precedence is not lower than its own and is then pushed; at the end
\* the stack is popped to the output.  The stack has its top last.
RECURSIVE ShuntingYard(_, _, _, _)
ShuntingYard(toks, i, stack, out) ==
    IF i > Len(toks)
    THEN IF stack = <<>> THEN out
         ELSE ShuntingYard(toks, i, SubSeq(stack, 1, Len(stack) - 1),
                           Append(out, [type |-> stack[Len(stack)]]))
    ELSE IF toks[i].kind = "Word"
    THEN ShuntingYard(toks, i + 1, stack, Append(out, [type |-> "Word", str |-> toks[i].str]))
    ELSE IF stack # <<>>
            /\ ReferencePrecedence(stack[Len(stack)]) >= ReferencePrecedence(toks[i].kind)
    THEN ShuntingYard(toks, i, SubSeq(stack, 1, Len(stack) - 1),
                      Append(out, [type |-> stack[Len(stack)]]))
    ELSE ShuntingYard(toks, i + 1, Append(stack, toks[i].kind), out)

\* toks is Words joined by And/Or, each Word with at most one Not before it.
InfixOfWords(toks) ==
    /\ toks # <<>>
    /\ toks[Len(toks)].kind = "Word"
    /\ \A i \in 1..Len(toks) :
          /\ toks[i].kind \in {"Word", "And", "Or", "Not"}
          /\ toks[i].kind = "Word" => i = 1 \/ toks[i - 1].kind \in {"And", "Or", "Not"}
          /\ toks[i].kind = "Not" => i = 1 \/ toks[i - 1].kind \in {"And", "Or"}
          /\ toks[i].kind \in {"And", "Or"} => i > 1 /\ toks[i - 1].kind = "Word"

\* The nodes of a list without their flags.
Shape(nodes) ==
    [k \in 1..Len(nodes) |->
        IF nodes[k].type = "Word" THEN [type |-> "Word", str |-> nodes[k].str]
        ELSE [type |-> nodes[k].type]]

\* C13: for a bracket-free query of Words joined by explicit And/Or, with
\* single Nots before Words, the parse returns the postfix of the reference
\* shunting-yard algorithm with Not > And > Or.
C13_Precedence ==
    pc = "done" /\ InfixOfWords(query)
        => Shape(result) = ShuntingYard(query, 1, <<>>, <<>>)

\* a OR b AND a gives a b a And Or
C13_Witness ==
    /\ pc = "done"
    /\ Len(query) = 5
    /\ InfixOfWords(query)
    /\ query[2] = TokOr /\ query[4] = TokAnd
    /\ Shape(result) = <<[type |-> "Word", str |-> query[1].str],
                         [type |-> "Word", str |-> query[3].str],
                         [type |-> "Word", str |-> query[5].str],
                         [type |-> "And"], [type |-> "Or"]>>

----------------------------------------------------------------------------
(* Brackets                                                                 *)

\* The depth of open brackets after toks[i..], from depth; -1 once a closing
\* bracket is in excess.
RECURSIVE BracketDepth(_, _, _)
BracketDepth(toks, i, depth) ==
    IF i > Len(toks) THEN depth
    ELSE IF toks[i].kind = "BracketOpen" THEN BracketDepth(toks, i + 1, depth + 1)
    ELSE IF toks[i].kind = "BracketClose"
    THEN IF depth = 0 THEN -1 ELSE BracketDepth(toks, i + 1, depth - 1)
    ELSE BracketDepth(toks, i + 1, depth)

Balanced(toks) == BracketDepth(toks, 1, 0) = 0

InsertAt(toks, i, t) == (SubSeq(toks, 1, i - 1) \o <<t>>) \o SubSeq(toks, i, Len(toks))

\* toks is made of Words, operators and balanced brackets.
PlainQuery(toks) ==
    /\ \A i \in 1..Len(toks) :
          toks[i].kind \in {"Word", "And", "Or", "Not", "BracketOpen", "BracketClose"}
    /\ Balanced(toks)

\* C14: an opening bracket right after an operand or a closing bracket gets
\* exactly the And an explicit And would give: X (Y) and X AND (Y) parse to
\* the same list.
C14_ImplicitAndBeforeBracket ==
    pc = "done" /\ PlainQuery(query) =>
        \A i \in 2..Len(query) :
            query[i].kind = "BracketOpen" /\ query[i - 1].kind \in {"Word", "BracketClose"}
                => result = Parse(InsertAt(query, i, TokAnd), top_flags, macro_filters)

\* toks is made of Words, operators, balanced brackets and nocase: modifiers.
NocaseQuery(toks) ==
    /\ \A i \in 1..Len(toks) :
          \/ toks[i].kind \in {"Word", "And", "Or", "Not", "BracketOpen", "BracketClose"}
          \/ toks[i] = F("nocase")
    /\ Balanced(toks)

\* C15: a bracket after a modifier is handled as a bracket of the main loop.
\* With no flag set nocase: changes no flags, and nocase:(E) then gives the
\* list and leaves the operator stack that (E) gives, in every context.
C15_ModifierBracket ==
    pc = "done" /\ top_flags = NoFlags /\ NocaseQuery(query) =>
        \A i \in 1..Len(query) - 1 :
            query[i] = F("nocase") /\ query[i + 1] = TokOpen
                => LET plain == Run(NewContext(RemoveAt(query, i), top_flags, macro_filters))
                   IN result = plain.result /\ operator_stack = plain.operator_stack

\* C16: parse_field never returns the empty list: every Field or EmptyField
\* token gives the output at least one node.
C16_FieldNeverEmpty == field_return.returned => field_return.res # <<>>

MaxBracketLen == 5   \* longest token stream of the bracket inputs

BracketTokens == {W("a"), F("nocase"), F("ext"), F("m1"), TokOpen, TokClose}

\* m1 as a filter that leaves a bracket open, and as one that closes a
\* bracket it did not open.
BracketRegistries ==
    {<<Filter("m1", <<TokOpen, W("a")>>, NoFlags)>>,
     <<Filter("m1", <<W("a"), TokClose>>, NoFlags)>>}

BracketInputs ==
    CoreInputs \cup {Input(q, NoFlags, r) :
                        q \in SeqsUpTo(BracketTokens, MaxBracketLen),
                        r \in BracketRegistries}

InitBracket == InitWith(BracketInputs)

SpecBracket == InitBracket /\ [][Next]_vars

\* C17: parse_close_bracket always finds a BracketOpen on the operator stack:
\* the branch with g_assert_not_reached is never taken.
C17_OpenBracketFound == pc # "abort"

\* parse_close_bracket has closed the bracket of a modifier after a closing
\* bracket was read as the argument of a function
C17_Witness ==
    /\ query = <<F("nocase"), TokOpen, F("ext"), TokClose, TokClose>>
    /\ field_return.returned
    /\ field_return.field_name = "nocase"
    /\ field_return.bracket = "bracket"
    /\ operator_stack = <<>>

\* The index of the BracketClose that closes the bracket whose body starts
\* at toks[j], 0 when there is none.
RECURSIVE MatchingClose(_, _, _)
MatchingClose(toks, j, depth) ==
    IF j > Len(toks) THEN 0
    ELSE IF toks[j].kind = "BracketOpen" THEN MatchingClose(toks, j + 1, depth + 1)
    ELSE IF toks[j].kind = "BracketClose"
    THEN IF depth = 1 THEN j ELSE MatchingClose(toks, j + 1, depth - 1)
    ELSE MatchingClose(toks, j + 1, depth)

\* C18: the parse_expression called for the bracket of a modifier reads the
\* tokens up to the BracketClose that matches that bracket, and none after it.
C18_BracketConsumption ==
    field_return.returned /\ field_return.bracket # "none" =>
        LET m == MatchingClose(field_return.bracket_lexer.toks,
                               field_return.bracket_lexer.pos, 1)
        IN m # 0 \/ field_return.bracket = "bracket"
               => field_return.after.pos = m + 1

MaxDiscardLen == 5   \* longest token stream of the inputs with operators after a bracket

DiscardTokens == {W("a"), TokAnd, TokOr, TokNot, TokOpen, TokClose, F("nocase")}

DiscardInputs ==
    CoreInputs \cup {Input(q, NoFlags, DefaultFilters) :
                        q \in SeqsUpTo(DiscardTokens, MaxDiscardLen)}

InitDiscard == InitWith(DiscardInputs)

SpecDiscard == InitDiscard /\ [][Next]_vars

\* The index of the first token at or after i that is not an And or an Or.
RECURSIVE BinaryRunEnd(_, _)
BinaryRunEnd(toks, i) ==
    IF i <= Len(toks) /\ toks[i].kind \in {"And", "Or"} THEN BinaryRunEnd(toks, i + 1) ELSE i

\* toks[i] is a BracketOpen that the main loop reads (it is not the argument
\* of a modifier) and a run of And and Or tokens follows it.
OperatorsAfterBracket(toks, i) ==
    /\ toks[i].kind = "BracketOpen"
    /\ i = 1 \/ toks[i - 1].kind # "Field"
    /\ i < Len(toks)
    /\ toks[i + 1].kind \in {"And", "Or"}

\* toks without the run of And and Or tokens after toks[i].
WithoutRun(toks, i) ==
    SubSeq(toks, 1, i) \o SubSeq(toks, BinaryRunEnd(toks, i + 1), Len(toks))

\* C25: a run of And and Or tokens right after a BracketOpen of the main loop
\* is discarded: the parse returns the list, and leaves the operator stack,
\* of the same query without the run.
C25_OperatorsAfterBracketDiscarded ==
    pc = "done" =>
        \A i \in 1..Len(query) :
            OperatorsAfterBracket(query, i) =>
                LET r == Run(NewContext(WithoutRun(query, i), top_flags, macro_filters))
                IN result = r.result /\ operator_stack = r.operator_stack

\* ( OR AND a ) gives the word alone
C25_Witness ==
    /\ pc = "done"
    /\ query = <<TokOpen, TokOr, TokAnd, W("a"), TokClose>>
    /\ result = <<fsearch_query_node_new("a", NoFlags)>>
    /\ operator_stack = <<>>

\* The number of BracketOpen entries of stack.
RECURSIVE OpenCount(_)
OpenCount(stack) ==
    IF stack = <<>> THEN 0
    ELSE OpenCount(PopStack(stack)) + (IF top_query_token(stack) = "BracketOpen" THEN 1 ELSE 0)

\* Between two BracketOpen entries, and below the first and above the last,
\* the precedences strictly increase from bottom to top.
SegmentsOrdered(stack) ==
    \A k \in 1..(Len(stack) - 1) :
        stack[k] # "BracketOpen" /\ stack[k + 1] # "BracketOpen"
            => get_operator_precedence(stack[k]) < get_operator_precedence(stack[k + 1])

\* C26: the operator stack holds only And, Or, Not and BracketOpen, within
\* each segment between BracketOpen entries the precedences strictly increase
\* from bottom to top, and parse_operator, whatever operator it is called
\* with, pops no BracketOpen.
C26_OperatorStackOrdered ==
    /\ \A k \in 1..Len(operator_stack) :
          operator_stack[k] \in {"And", "Or", "Not", "BracketOpen"}
    /\ SegmentsOrdered(operator_stack)
    /\ \A token \in OperatorTypes :
          OpenCount(parse_operator(Ctx, token).c.operator_stack) = OpenCount(operator_stack)

\* ( a OR NOT a: Or and Not are above the bracket, the implicit operators popped
C26_Witness ==
    /\ pc = "run"
    /\ query = <<TokOpen, W("a"), TokOr, TokNot, W("a")>>
    /\ operator_stack = <<"BracketOpen", "Or", "Not">>

----------------------------------------------------------------------------
(* Fields and functions                                                     *)

MaxArgLen == 2       \* most tokens after the field of the function inputs

ArgumentWords ==
    {"5", "-5", "0", "5x", "5..5", "0..0", "-5..-5", "5..7", "5..", "..5", "..0", "..",
     "x..5", "5..x", "2147483647", "2147483647..", "jan", "jan..", "..jan", "jan..jan",
     "a"}

ArgumentTokens ==
    {W(w) : w \in ArgumentWords}
        \cup {Tok("Greater"), Tok("Equal"), TokAnd, TokOpen, TokClose}

FunctionFields ==
    {F("size"), F("dm"), F("depth"), F("ext"), F("empty"), F("foo"), E("size"), E("foo")}

FunctionInputs ==
    CoreInputs \cup {Input(<<f>> \o q, NoFlags, DefaultFilters) :
                        f \in FunctionFields, q \in SeqsUpTo(ArgumentTokens, MaxArgLen)}

InitFunction == InitWith(FunctionInputs)

SpecFunction == InitFunction /\ [][Next]_vars

NumericFunctions ==
    {"childcount", "childfilecount", "childfoldercount", "depth", "parents", "dm",
     "datemodified", "size"}

StringFunctions == {"ext", "contenttype", "parent"}

\* The value parser of a numeric function.
ValueParser(name) ==
    CASE name = "size" -> "fsearch_size_parse"
      [] name \in {"dm", "datemodified"} -> "fsearch_date_time_parse_interval"
      [] OTHER -> "parse_integer"

\* The word chars is no value and no range of values of the function: it is
\* empty, or an endpoint that is there does not parse.
MalformedRange(name, chars) ==
    LET el == g_strsplit(chars)
    IN \/ el = <<>>
       \/ \E k \in 1..Len(el) : el[k] # <<>> /\ ~ParseValue(ValueParser(name), el[k]).ok

\* The parse_field call fc is for a malformed field: an unknown name, a
\* numeric function with no Word where its value belongs or with a value or
\* a range endpoint that does not parse, a string function with no Word.
MalformedCall(fc) ==
    LET t1 == fsearch_query_lexer_peek_next_token(fc.lexer)
        t2 == fsearch_query_lexer_peek_next_token(LexerAdvance(fc.lexer))
    IN \/ fc.how = "unknown"
       \/ /\ fc.how = "function"
          /\ ~fc.is_empty_field
          /\ \/ /\ fc.field_name \in NumericFunctions
                /\ \/ t1.kind \notin ComparisonTokens \cup {"Word"}
                   \/ /\ t1.kind \in ComparisonTokens
                      /\ \/ t2.kind # "Word"
                         \/ ~ParseValue(ValueParser(fc.field_name), Spell(t2.str)).ok
                   \/ t1.kind = "Word" /\ MalformedRange(fc.field_name, Spell(t1.str))
             \/ fc.field_name \in StringFunctions /\ t1.kind # "Word"

\* C11: a parse_field call for a malformed field or function returns a list
\* of exactly one node, MatchNothing.
C11_MalformedField ==
    field_return.returned /\ MalformedCall(field_return)
        => field_return.res = <<fsearch_query_node_new_match_nothing>>

\* size: with a comparison and then a word that is no number
C11_Witness ==
    /\ field_return.returned
    /\ field_return.field_name = "size"
    /\ ~field_return.is_empty_field
    /\ fsearch_query_lexer_peek_next_token(field_return.lexer).kind = "Greater"
    /\ fsearch_query_lexer_peek_next_token(LexerAdvance(field_return.lexer)) = W("5x")
    /\ field_return.res = <<fsearch_query_node_new_match_nothing>>

\* The word for the range from x to x.
RangeOfOne(x) ==
    CASE x = "5" -> "5..5" [] x = "0" -> "0..0" [] x = "-5" -> "-5..-5"
      [] x = "jan" -> "jan..jan" [] OTHER -> ""

\* C12: for a numeric function f and a value x its parser accepts, f:x..x and
\* f:x give the same node.
C12_RangeOfOne ==
    pc = "done" =>
        \A x \in ArgumentWords :
            /\ Len(query) = 2
            /\ query[1].kind = "Field" /\ query[1].str \in NumericFunctions
            /\ ParseValue(ValueParser(query[1].str), Spell(x)).ok
            /\ query[2] = W(RangeOfOne(x))
            => result = Parse(<<query[1], W(x)>>, top_flags, macro_filters)

\* size:5..5 gives the node of size:5, an Equal comparison
C12_Witness ==
    /\ pc = "done"
    /\ query = <<F("size"), W("5..5")>>
    /\ result = <<NumericNode("Size", NoFlags, 5, 5, "Equal")>>
    /\ result = Parse(<<F("size"), W("5")>>, top_flags, macro_filters)

\* The node type of a numeric function.
FunctionNode(name) ==
    CASE name = "childcount" -> "ChildCount"
      [] name = "childfilecount" -> "ChildFileCount"
      [] name = "childfoldercount" -> "ChildFolderCount"
      [] name \in {"depth", "parents"} -> "Depth"
      [] name \in {"dm", "datemodified"} -> "DateModified"
      [] name = "size" -> "Size"

\* The parse_field call fc is a numeric function with a Word as its argument.
RangeCall(fc) ==
    /\ fc.how = "function"
    /\ fc.field_name \in NumericFunctions
    /\ ~fc.is_empty_field
    /\ fsearch_query_lexer_peek_next_token(fc.lexer).kind = "Word"

\* The pieces g_strsplit makes of that Word.
RangeParts(fc) == g_strsplit(Spell(fsearch_query_lexer_peek_next_token(fc.lexer).str))

RangeValue(fc, chars) == ParseValue(ValueParser(fc.field_name), chars)

RangeNode(fc, start, end, comp) ==
    <<NumericNode(FunctionNode(fc.field_name), fc.flags, start, end, comp)>>

\* C21: for a numeric function and a value A its parser accepts as (a, _), the
\* argument A.. gives the node (flags, a, INT32_MAX, GreaterEq), also for
\* a = INT32_MAX.
C21_OpenUpperEnd ==
    field_return.returned /\ RangeCall(field_return) =>
        LET el == RangeParts(field_return)
        IN Len(el) = 2 /\ el[1] # <<>> /\ el[2] = <<>> /\ RangeValue(field_return, el[1]).ok
               => field_return.res =
                      RangeNode(field_return, RangeValue(field_return, el[1]).a,
                                INT32_MAX, "GreaterEq")

\* C22: for a numeric function the argument .. (both parts empty) fails: the
\* field gives MatchNothing.
C22_SeparatorAlone ==
    field_return.returned /\ RangeCall(field_return) =>
        LET el == RangeParts(field_return)
        IN Len(el) = 2 /\ el[1] = <<>> /\ el[2] = <<>>
               => field_return.res = <<fsearch_query_node_new_match_nothing>>

\* The parse_field call is a numeric function with the argument ..B, B a
\* value the function's parser accepts.
OpenLowerEnd ==
    /\ field_return.returned
    /\ RangeCall(field_return)
    /\ Len(RangeParts(field_return)) = 2
    /\ RangeParts(field_return)[1] = <<>>
    /\ RangeParts(field_return)[2] # <<>>
    /\ RangeValue(field_return, RangeParts(field_return)[2]).ok

\* The end the parser gives for B.
UpperEnd == RangeValue(field_return, RangeParts(field_return)[2]).b

\* C23 as stated: ..B gives the node (flags, 0, e, Range) for every e, e = 0
\* included.
C23_OpenLowerEndAlways ==
    OpenLowerEnd => field_return.res = RangeNode(field_return, 0, UpperEnd, "Range")

\* C23: for a numeric function and a value B its parser accepts as (_, e), the
\* argument ..B gives the node (flags, 0, e, Range) when e is not 0, and
\* (flags, 0, 0, Equal) when e is 0.
C23_OpenLowerEnd ==
    OpenLowerEnd =>
        field_return.res =
            RangeNode(field_return, 0, UpperEnd, IF UpperEnd = 0 THEN "Equal" ELSE "Range")

\* dm:..jan gives the range from 0 to the end of the interval of jan
C23_Witness ==
    /\ OpenLowerEnd
    /\ field_return.field_name = "dm"
    /\ fsearch_query_lexer_peek_next_token(field_return.lexer) = W("..jan")
    /\ field_return.res = <<NumericNode("DateModified", NoFlags, 0, 200, "Range")>>

\* C24 as stated: empty: followed by one token gives the output of empty:
\* alone; the token adds no node.
C24_EmptyArgumentDropped ==
    pc = "done" /\ Len(query) = 2 /\ query[1] = F("empty")
        => result = Parse(<<E("empty")>>, top_flags, macro_filters)

\* C24: the field empty gives exactly ChildCount(flags, 0, 0, Equal) and reads
\* no token; the tokens after it are parsed as the rest of the expression, so
\* empty:x gives the output of empty: followed by x.
C24_EmptyReadsNoArgument ==
    /\ field_return.returned /\ field_return.how = "function"
            /\ field_return.field_name = "empty"
       => /\ field_return.res = <<NumericNode("ChildCount", field_return.flags, 0, 0, "Equal")>>
          /\ field_return.after = field_return.lexer
    /\ pc = "done" /\ query # <<>> /\ query[1] = F("empty")
       => result = Parse(<<E("empty")>> \o Tail(query), top_flags, macro_filters)

\* empty:5 gives the node of empty, the word 5 and the implicit And
C24_Witness ==
    /\ pc = "done"
    /\ query = <<F("empty"), W("5")>>
    /\ result = <<NumericNode("ChildCount", NoFlags, 0, 0, "Equal"),
                  fsearch_query_node_new("5", NoFlags),
                  fsearch_query_node_new_operator("And")>>

----------------------------------------------------------------------------
(* Macro expansion                                                          *)

MaxFilters == 2      \* most filters of a registry of the macro inputs

MacroName(k) == CASE k = 1 -> "m1" [] k = 2 -> "m2" [] k = 3 -> "m3" [] OTHER -> "m4"

\* Filter queries: empty, plain, ending in an unbalanced closing bracket, and
\* referring to a filter at several places of an expression.
MacroQueries ==
    {<<>>, <<W("a")>>, <<W("a"), W("a"), TokClose>>}
        \cup {<<F(MacroName(k))>> : k \in 1..MaxFilters}
        \cup {<<W("a"), W("a"), F(MacroName(k))>> : k \in 1..MaxFilters}

\* Registries whose k-th filter is named MacroName(k), and registries of two
\* filters that share the name m1.
Registries ==
    {[k \in 1..n |-> Filter(MacroName(k), qs[k], NoFlags)] :
        n \in 0..MaxFilters, qs \in [1..MaxFilters -> MacroQueries]}
    \cup {<<Filter("m1", q1, NoFlags), Filter("m1", q2, NoFlags)>> :
            q1 \in MacroQueries, q2 \in MacroQueries}

MacroMainQueries ==
    {<<F("m1")>>, <<W("a"), W("a"), F("m1")>>, <<F("m1"), F("m2")>>,
     <<TokOpen, F("m1"), TokClose>>, <<F("case"), F("m1")>>}

MacroInputs ==
    CoreInputs \cup {Input(q, NoFlags, r) : q \in MacroMainQueries, r \in Registries}

InitMacro == InitWith(MacroInputs)

SpecMacro == InitMacro /\ [][Next]_vars

\* Filter queries for cycles: empty, plain, and referring to a filter.
CycleQueries ==
    {<<>>, <<W("a")>>}
        \cup {<<F(MacroName(k))>> : k \in 1..MaxFilters}
        \cup {<<W("a"), F(MacroName(k))>> : k \in 1..MaxFilters}

CycleRegistries ==
    {[k \in 1..n |-> Filter(MacroName(k), qs[k], NoFlags)] :
        n \in 0..MaxFilters, qs \in [1..MaxFilters -> CycleQueries]}

CycleInputs ==
    CoreInputs \cup {Input(q, NoFlags, r) :
                        q \in {<<F("m1")>>, <<W("a"), F("m2"), F("m1")>>},
                        r \in CycleRegistries}

InitCycle == InitWith(CycleInputs)

\* A parse runs to its end: every call is made and every loop iteration taken.
FairSpecCycle == InitCycle /\ [][Next]_vars /\ WF_vars(Next)

TopFrame == frames[Len(frames)]

\* parse_filter_macros has just returned to parse_field.
MacroReturned == pc = "run" /\ TopFrame.kind = "field"

\* C4: with any registry, cyclic ones included, the parse terminates and the
\* macro nesting depth never exceeds the number of filters.
C4_MacroTermination ==
    /\ [](Len(macro_stack) <= Len(macro_filters))
    /\ <>(pc = "done")

\* a cycle is met with every filter of a registry of two on the macro stack
C4_Witness ==
    /\ MacroReturned
    /\ TopFrame.outcome = "rejected"
    /\ Len(macro_stack) = 2
    /\ Len(macro_filters) = 2
    /\ \E k \in 1..2 : macro_filters[macro_stack[k]].macro = TopFrame.field_name

\* C9: when parse_filter_macros returns (expansion rejected, nested parse
\* ended at the end of its input or at an unbalanced closing bracket), the
\* lexer, the operator stack and the macro stack are as they were at the call.
C9_MacroRestoresContext ==
    MacroReturned =>
        /\ lexer = TopFrame.entry.lexer
        /\ operator_stack = TopFrame.entry.operator_stack
        /\ macro_stack = TopFrame.entry.macro_stack

\* a nested expansion ended by an unbalanced closing bracket, called with
\* operators pending on the stack of the expansion around it
C9_Witness ==
    /\ MacroReturned
    /\ TopFrame.outcome = "unbalanced"
    /\ operator_stack # <<>>
    /\ macro_stack # <<>>
    /\ lexer.pos > 1

\* C10: macro_stack never holds a filter twice.
C10_MacroStackDistinct ==
    \A j, k \in 1..Len(macro_stack) : j # k => macro_stack[j] # macro_stack[k]

\* two filters are being expanded, and a field naming the outer one is rejected
C10_Witness ==
    /\ MacroReturned
    /\ TopFrame.outcome = "rejected"
    /\ Len(macro_stack) >= 2
    /\ macro_filters[macro_stack[1]].macro = TopFrame.field_name

\* The list a fresh parse of filter i returns: a new lexer over the filter's
\* query, an empty operator stack, last_token None, the given flags, and
\* stack as the macro stack with the filter pushed on it.
FreshExpansion(i, flags, stack) ==
    Run([NewContext(macro_filters[i].query, flags, macro_filters)
            EXCEPT !.macro_stack = Append(stack, i)]).result

\* C8: the list a macro expands to is that of a fresh parse of the filter's
\* query, whatever the outer parse has read and left in the context.
C8_ExpansionIndependent ==
    MacroReturned /\ TopFrame.outcome # "rejected" =>
        LET i == FindFilter(macro_filters, TopFrame.field_name, 1)
        IN TopFrame.res =
               FreshExpansion(i, MacroFlags(macro_filters[i].flags, TopFrame.flags),
                              TopFrame.entry.macro_stack)

MaxOverrideLen == 3  \* longest main query of the inputs with native filter names

\* Filter names: a modifier, a function, and a name of no native field.
OverrideNames == {"case", "ext", "m1"}

\* Filter queries: empty, plain, returning no node, and referring to filters.
OverrideQueries ==
    {<<>>, <<W("a")>>, <<TokOpen>>, <<F("case"), W("a")>>, <<F("ext"), W("a")>>,
     <<F("m1")>>, <<W("a"), F("m1")>>}

OverrideRegistries ==
    {<<Filter(n, q, NoFlags)>> : n \in OverrideNames, q \in OverrideQueries}
    \cup {<<Filter("case", q1, NoFlags), Filter("m1", q2, NoFlags)>> :
            q1 \in OverrideQueries, q2 \in OverrideQueries}

OverrideInputs ==
    CoreInputs \cup {Input(q, NoFlags, r) :
                        q \in SeqsUpTo({W("b"), F("case"), F("ext"), F("m1")}, MaxOverrideLen),
                        r \in OverrideRegistries}

InitOverride == InitWith(OverrideInputs)

SpecOverride == InitOverride /\ [][Next]_vars

\* The filter parse_filter_macros finds for the field of the latest
\* parse_field call, 0 if none.
CalledFilter == FindFilter(macro_filters, field_return.field_name, 1)

CalledFilterOnStack ==
    \E k \in 1..Len(field_return.macro_stack) : field_return.macro_stack[k] = CalledFilter

\* The field names a filter with a non-empty query that is not on macro_stack.
CalledFilterExpandable ==
    /\ CalledFilter # 0
    /\ macro_filters[CalledFilter].query # <<>>
    /\ ~CalledFilterOnStack

\* parse_field returned the expansion and nothing else happened: no native
\* handler ran and no token of the outer stream was read.
ReturnedExpansion ==
    /\ field_return.outcome # "rejected"
    /\ field_return.how = "macro"
    /\ field_return.res = field_return.expansion
    /\ field_return.after = field_return.lexer
    /\ field_return.stack_after = field_return.operator_stack

ReturnedMatchNothing ==
    /\ field_return.outcome = "rejected"
    /\ field_return.res = <<fsearch_query_node_new_match_nothing>>
    /\ field_return.after = field_return.lexer

\* C20 as stated: a field that names a filter on macro_stack returns exactly
\* one MatchNothing, whatever its name.
C20_CycleMatchNothingAlways ==
    field_return.returned /\ CalledFilter # 0 /\ CalledFilterOnStack
        => ReturnedMatchNothing

\* C20: a field that names a filter on macro_stack is not expanded; when its
\* name is no native modifier or function, parse_field returns exactly one
\* MatchNothing.
C20_CycleMatchNothing ==
    field_return.returned /\ CalledFilter # 0 /\ CalledFilterOnStack =>
        /\ field_return.outcome = "rejected"
        /\ field_return.field_name \notin DOMAIN supported_modifiers \cup supported_functions
               => ReturnedMatchNothing

\* m1 was met while m1 was being expanded
C20_Witness ==
    /\ field_return.returned
    /\ field_return.field_name = "m1"
    /\ CalledFilter # 0
    /\ CalledFilterOnStack
    /\ field_return.res = <<fsearch_query_node_new_match_nothing>>

====
